---- MODULE Spec2Model ----
(***************************************************************************)
(* Link/Scan registry of ZetsuQRCodeZ (server.ts): the three SQLite tables *)
(* links, scans and settings, and the Express handlers that read and write *)
(* them.  better-sqlite3 is synchronous and the handlers contain no await, *)
(* so Node runs each handler to completion before the next request: one    *)
(* action per handler, requests handled in any order.  Every run() is its  *)
(* own autocommit transaction and may throw (the spec's StorageError); an  *)
(* uncaught throw ends the handler with Express's 500 response and keeps   *)
(* what earlier statements of the handler already committed.               *)
(*                                                                         *)
(* Link ids are represented by their generation index: the k-th value      *)
(* returned by shortid.generate() is k.  A timestamp is <<day, second>>,   *)
(* the date part and the time part of CURRENT_TIMESTAMP, which has a       *)
(* resolution of one second.                                               *)
(*                                                                         *)
(* SpecSteps takes the two statements of GET /s/:id as separate steps.     *)
(* SpecRender is the canvas rendering of generateArtisticQR (App.tsx).     *)
(* SpecRestart adds the start of the server process on the kept database.  *)
(* SpecGenerate is generateArtisticQR with its awaits, the file input and  *)
(* the server that answers its POST; SpecDashboard is the dashboard view   *)
(* with the server that answers its requests.  The messages between the    *)
(* client and the server are in net and are handled in any order.          *)
(***************************************************************************)
EXTENDS Integers, Sequences, FiniteSets, TLC

\* ---- bounds of the model ----
MaxLinks == 3
MaxScans == 2
MaxDay == 1
MaxSec == 0
MaxVersion == 2
MaxUploads == 2
MaxInFlight == 2

\* ---- inputs ----
Missing == "<undefined>"
TargetUrls == {Missing, "", "https://a.test", "https://b.test"}
UserAgents == {Missing, "UA"}
Ids == 1..MaxLinks
Times == (0..MaxDay) \X (0..MaxSec)
EventTypes == {"checkout.session.completed", "payment_intent.created"}
NULL == 0

\* if (!isPro && links.length > 2): the number of links a non-pro instance shows
VisibleLimit == 2

VARIABLES links, scans, scanSeq, settings, nextId, now, req, resp

\* the GET /s/:id handler that has run its SELECT and not yet its INSERT
VARIABLE running

\* the browser (App.tsx): position in generateArtisticQR, the QR matrix, the
\* stylized background image, the canvas, the loop indices, the result image
VARIABLES pc, qr, bgImg, canvas, row, col, resultImage

\* the React state of App: sourceImage, isProcessing, error, selectedLink,
\* linksData, isLoadingAnalytics; uploads counts the files chosen so far and
\* reading holds those a FileReader is still reading; gen holds what the
\* running generateArtisticQR captured; ev is the event the browser handled
\* last
VARIABLES sourceImage, isProcessing, error, selectedLink, linksData,
          isLoadingAnalytics, uploads, reading, gen, ev

\* the HTTP requests and responses between the browser and the server that
\* are in flight
VARIABLE net

\* useState<string | null>(null): the null of resultImage, selectedLink, linksData
NoResult == [null |-> TRUE]

\* useState<string | null>(null): the null of error
NoError == "<null>"

\* the locals qr, bgImg and canvas before generateArtisticQR assigns them
NoQr == [size |-> 0, data |-> "none"]
NoImage == "none"
NoCanvas == [sp \in {} |-> 0]

\* no generateArtisticQR is running
NoGen == [source |-> NULL, text |-> "", shortUrl |-> <<>>]

\* no handler is between two of its statements
NoHandler == [id |-> NULL]

clientVars == <<pc, qr, bgImg, canvas, row, col, resultImage, sourceImage, isProcessing,
                error, selectedLink, linksData, isLoadingAnalytics, uploads, reading,
                gen, ev>>

vars == <<links, scans, scanSeq, settings, nextId, now, req, resp, running, clientVars, net>>

\* ---- time ----
TsLess(a, b) == a[1] < b[1] \/ (a[1] = b[1] /\ a[2] < b[2])

TsLeq(a, b) == a = b \/ TsLess(a, b)

\* date(scanned_at): the date part of a timestamp
DateOf(ts) == ts[1]

\* the clock readings a later request can see
Later(t) == {u \in Times : TsLeq(t, u)}

\* ---- SQL statements ----
LinkIds(L) == {l.id : l \in L}

\* mutant: the WHERE clause is missing
SelectLinkAny(L, id) == L

\* SELECT ... FROM links WHERE id = ?  (.get(): the row, or undefined)
SelectLink(L, id) == {l \in L : l.id = id}

\* mutant: the statement also rewrites the target_url of the rows already stored
InsertLinkOverwrite(L, id, url, t) ==
  {[l EXCEPT !.target_url = url] : l \in L}
    \cup {[id |-> id, target_url |-> url, created_at |-> t]}

\* INSERT INTO links (id, target_url) VALUES (?, ?); created_at defaults to the clock
InsertLink(L, id, url, t) ==
  L \cup {[id |-> id, target_url |-> url, created_at |-> t]}

\* mutant: the scans of the link are not deleted
DeleteScansNone(S, id) == S

\* DELETE FROM scans WHERE link_id = ?
DeleteScans(S, id) == {s \in S : s.link_id # id}

\* mutant: the link row is not deleted
DeleteLinkRowNone(L, id) == L

\* DELETE FROM links WHERE id = ?   (result.changes = rows removed)
DeleteLinkRow(L, id) == {l \in L : l.id # id}

\* mutant: changes counts every row of the table
DeleteChangesTotal(L, id) == Cardinality(L)

DeleteChanges(L, id) == Cardinality(SelectLink(L, id))

\* PRAGMA foreign_keys is never set: whether the constraint of the scans table
\* is enforced is left to the build of the SQLite library
ForeignKeys == BOOLEAN

\* FOREIGN KEY(link_id) REFERENCES links(id) ON DELETE CASCADE, when enforced
\* mutant: the cascade removes the scans of every link
CascadeScansAll(S, id, fk) == IF fk THEN {} ELSE S

CascadeScans(S, id, fk) == IF fk THEN {s \in S : s.link_id # id} ELSE S

FkViolation(L, id, fk) == fk /\ id \notin LinkIds(L)

\* mutant: every scan is written under the same id, replacing the one before
InsertScanSameId(S, seq, id, ua, t) ==
  {s \in S : s.id # 1}
    \cup {[id |-> 1, link_id |-> id, scanned_at |-> t, user_agent |-> ua]}

\* INSERT INTO scans (link_id, user_agent) VALUES (?, ?); id AUTOINCREMENT,
\* scanned_at defaults to the clock
InsertScan(S, seq, id, ua, t) ==
  S \cup {[id |-> seq + 1, link_id |-> id, scanned_at |-> t, user_agent |-> ua]}

\* ---- queries ----
\* all orderings of the rows of R
Perms(R) ==
  {q \in [1..Cardinality(R) -> R] : \A i, j \in 1..Cardinality(R) : q[i] = q[j] => i = j}

\* FROM links l LEFT JOIN scans s ON l.id = s.link_id: one row per matching
\* scan, and one row with a NULL s.id for a link without scans
LeftJoin(L, S) ==
  UNION {IF {s \in S : s.link_id = l.id} = {}
           THEN {[l |-> l, sid |-> NULL]}
           ELSE {[l |-> l, sid |-> s.id] : s \in {s \in S : s.link_id = l.id}}
         : l \in L}

\* mutant: COUNT(*), which also counts the NULL row of a link without scans
CountStar(J, id) == Cardinality({r \in J : r.l.id = id})

\* COUNT(s.id) of the group of link id: the rows whose s.id is not NULL
CountSid(J, id) == Cardinality({r \in J : r.l.id = id /\ r.sid # NULL})

\* SELECT l.*, COUNT(s.id) as scan_count ... GROUP BY l.id
GroupedLinks(L, S) ==
  {[id |-> l.id, target_url |-> l.target_url, created_at |-> l.created_at,
    scan_count |-> CountSid(LeftJoin(L, S), l.id)] : l \in L}

\* mutant: ORDER BY l.created_at ASC
OrderByCreatedAsc(R) ==
  {q \in Perms(R) : \A i, j \in 1..Cardinality(R) :
      i < j => ~TsLess(q[j].created_at, q[i].created_at)}

\* ORDER BY l.created_at DESC; rows with equal created_at come in any order
OrderByCreatedDesc(R) ==
  {q \in Perms(R) : \A i, j \in 1..Cardinality(R) :
      i < j => ~TsLess(q[i].created_at, q[j].created_at)}

\* mutant: ORDER BY scanned_at ASC
OrderByScannedAsc(R) ==
  {q \in Perms(R) : \A i, j \in 1..Cardinality(R) :
      i < j => ~TsLess(q[j].scanned_at, q[i].scanned_at)}

\* SELECT * FROM scans WHERE link_id = ? ORDER BY scanned_at DESC
OrderByScannedDesc(R) ==
  {q \in Perms(R) : \A i, j \in 1..Cardinality(R) :
      i < j => ~TsLess(q[i].scanned_at, q[j].scanned_at)}

\* mutant: COUNT(DISTINCT date(scanned_at))
DateGroupsDistinct(R) ==
  {[date |-> d, count |-> 1] : d \in {DateOf(s.scanned_at) : s \in R}}

\* SELECT date(scanned_at) as date, COUNT(*) as count ... GROUP BY date(scanned_at)
DateGroups(R) ==
  {[date |-> d, count |-> Cardinality({s \in R : DateOf(s.scanned_at) = d})]
     : d \in {DateOf(s.scanned_at) : s \in R}}

\* ORDER BY date ASC (the dates of the groups are distinct)
OrderByDateAsc(G) ==
  CHOOSE q \in Perms(G) : \A i, j \in 1..Cardinality(G) : i < j => q[i].date < q[j].date

\* mutant: links.slice(-2)
SliceTail(q, n) == SubSeq(q, IF Len(q) < n THEN 1 ELSE Len(q) - n + 1, Len(q))

\* links.slice(0, 2)
Slice(q, n) == SubSeq(q, 1, IF Len(q) < n THEN Len(q) ELSE n)

\* status.value === 'true'
IsPro(st) == st.is_pro = "true"

\* mutant: every verified event unlocks
AnyEvent(type) == TRUE

\* event.type === 'checkout.session.completed'
IsCheckoutCompleted(type) == type = "checkout.session.completed"

\* mutant: the UPDATE flips the stored value
TogglePro(st) == [st EXCEPT !.is_pro = IF st.is_pro = "true" THEN "false" ELSE "true"]

\* UPDATE settings SET value = 'true' WHERE key = 'is_pro'
SetPro(st) == [st EXCEPT !.is_pro = "true"]

\* mutant: only a missing field is refused
FalsyUndefinedOnly(v) == v = Missing

\* !targetUrl
Falsy(v) == v = Missing \/ v = ""

\* req.headers['user-agent'] || 'unknown'
UserAgentOf(h) == IF Falsy(h) THEN "unknown" ELSE h

\* `${APP_URL}/s/${id}`
ShortUrl(id) == <<"http://localhost:3000", "/s/", id>>

\* Express's response to an uncaught exception of a handler
StorageError == [status |-> 500, body |-> [error |-> "StorageError"]]

Init ==
  /\ links = {}
  /\ scans = {}
  /\ scanSeq = 0
  /\ settings = [is_pro |-> "false"]
  /\ nextId = 1
  /\ now = <<0, 0>>
  /\ req = [op |-> "none"]
  /\ resp = [status |-> 0, body |-> [none |-> TRUE]]
  /\ running = NoHandler
  /\ pc = "idle"
  /\ qr = NoQr
  /\ bgImg = NoImage
  /\ canvas = NoCanvas
  /\ row = 0
  /\ col = 0
  /\ resultImage = NoResult
  /\ sourceImage = NULL
  /\ isProcessing = FALSE
  /\ error = NoError
  /\ selectedLink = NoResult
  /\ linksData = NoResult
  /\ isLoadingAnalytics = FALSE
  /\ uploads = 0
  /\ reading = {}
  /\ gen = NoGen
  /\ ev = [name |-> "none"]
  /\ net = {}

\* POST /api/links.  fail = 1: the INSERT throws.
CreateLink(targetUrl, t, fail) ==
  /\ now' = t
  /\ UNCHANGED <<running, clientVars>>
  /\ req' = [op |-> "create", targetUrl |-> targetUrl]
  /\ UNCHANGED <<scans, scanSeq, settings>>
  /\ IF Falsy(targetUrl)
       THEN /\ resp' = [status |-> 400, body |-> [error |-> "Target URL is required"]]
            /\ UNCHANGED <<links, nextId>>
       ELSE /\ nextId <= MaxLinks
            /\ nextId' = nextId + 1
            /\ IF fail = 1
                 THEN /\ resp' = StorageError
                      /\ UNCHANGED links
                 ELSE /\ links' = InsertLink(links, nextId, targetUrl, t)
                      /\ resp' = [status |-> 200,
                                  body |-> [id |-> nextId, shortUrl |-> ShortUrl(nextId)]]

\* DELETE /api/links/:id.  fail = 1: the first DELETE throws; fail = 2: the
\* second DELETE throws after the first has committed.
DeleteLink(id, t, fail) ==
  /\ now' = t
  /\ UNCHANGED <<running, clientVars>>
  /\ req' = [op |-> "delete", id |-> id]
  /\ UNCHANGED <<scanSeq, settings, nextId>>
  /\ IF fail = 1
       THEN /\ resp' = StorageError
            /\ UNCHANGED <<links, scans>>
       ELSE IF fail = 2
         THEN /\ scans' = DeleteScans(scans, id)
              /\ resp' = StorageError
              /\ UNCHANGED links
         ELSE /\ \E fk \in ForeignKeys : scans' = CascadeScans(DeleteScans(scans, id), id, fk)
              /\ links' = DeleteLinkRow(links, id)
              /\ resp' = IF DeleteChanges(links, id) > 0
                           THEN [status |-> 200, body |-> [success |-> TRUE]]
                           ELSE [status |-> 404, body |-> [error |-> "Link not found"]]

\* mutant: the scan is logged before the link is looked up
ResolveLinkLogFirst(id, header, t, fail) ==
  /\ now' = t
  /\ UNCHANGED <<running, clientVars>>
  /\ req' = [op |-> "resolve", id |-> id]
  /\ UNCHANGED <<links, settings, nextId>>
  /\ scanSeq < MaxScans
  /\ scans' = InsertScan(scans, scanSeq, id, UserAgentOf(header), t)
  /\ scanSeq' = scanSeq + 1
  /\ resp' = IF SelectLink(links, id) # {}
               THEN [status |-> 302,
                     body |-> [location |->
                        (CHOOSE l \in SelectLink(links, id) : TRUE).target_url]]
               ELSE [status |-> 404, body |-> [error |-> "Link not found"]]

\* GET /s/:id.  fail = 1: the INSERT throws.
ResolveLink(id, header, t, fail) ==
  /\ now' = t
  /\ UNCHANGED <<running, clientVars>>
  /\ req' = [op |-> "resolve", id |-> id]
  /\ UNCHANGED <<links, settings, nextId>>
  /\ IF SelectLink(links, id) # {}
       THEN /\ scanSeq < MaxScans
            /\ \E fk \in ForeignKeys :
                 IF fail = 1 \/ FkViolation(links, id, fk)
                   THEN /\ resp' = StorageError
                        /\ UNCHANGED <<scans, scanSeq>>
                   ELSE /\ scans' = InsertScan(scans, scanSeq, id, UserAgentOf(header), t)
                        /\ scanSeq' = scanSeq + 1
                        /\ resp' = [status |-> 302,
                                    body |-> [location |->
                                       (CHOOSE l \in SelectLink(links, id) : TRUE).target_url]]
       ELSE /\ resp' = [status |-> 404, body |-> [error |-> "Link not found"]]
            /\ UNCHANGED <<scans, scanSeq>>

\* GET /api/analytics/:id
GetDetail(id, t) ==
  /\ now' = t
  /\ UNCHANGED <<running, clientVars>>
  /\ req' = [op |-> "analytics", id |-> id]
  /\ UNCHANGED <<links, scans, scanSeq, settings, nextId>>
  /\ IF SelectLink(links, id) = {}
       THEN resp' = [status |-> 404, body |-> [error |-> "Link not found"]]
       ELSE \E q \in OrderByScannedDesc({s \in scans : s.link_id = id}) :
              resp' = [status |-> 200,
                       body |-> [link |-> CHOOSE l \in SelectLink(links, id) : TRUE,
                                 scans |-> q,
                                 chartData |-> OrderByDateAsc(
                                    DateGroups({s \in scans : s.link_id = id}))]]

\* GET /api/links
ListLinks(t) ==
  /\ now' = t
  /\ UNCHANGED <<running, clientVars>>
  /\ req' = [op |-> "list"]
  /\ UNCHANGED <<links, scans, scanSeq, settings, nextId>>
  /\ \E q \in OrderByCreatedDesc(GroupedLinks(links, scans)) :
       resp' = IF ~IsPro(settings) /\ Len(q) > VisibleLimit
                 THEN [status |-> 200,
                       body |-> [isPro |-> FALSE, links |-> Slice(q, VisibleLimit),
                                 totalCount |-> Len(q),
                                 hiddenCount |-> Len(q) - VisibleLimit]]
                 ELSE [status |-> 200,
                       body |-> [isPro |-> TRUE, links |-> q,
                                 totalCount |-> Len(q), hiddenCount |-> 0]]

\* POST /api/webhook.  sigOk: constructEvent accepts the signature.
\* fail = 1: the UPDATE throws.
Webhook(sigOk, type, t, fail) ==
  /\ now' = t
  /\ UNCHANGED <<running, clientVars>>
  /\ req' = [op |-> "webhook", sigOk |-> sigOk, type |-> type]
  /\ UNCHANGED <<links, scans, scanSeq, nextId>>
  /\ IF ~sigOk
       THEN /\ resp' = [status |-> 400, body |-> [error |-> "Webhook Error"]]
            /\ UNCHANGED settings
       ELSE IF IsCheckoutCompleted(type) /\ fail = 1
         THEN /\ resp' = StorageError
              /\ UNCHANGED settings
         ELSE /\ settings' = IF IsCheckoutCompleted(type) THEN SetPro(settings) ELSE settings
              /\ resp' = [status |-> 200, body |-> [received |-> TRUE]]

\* GET /api/pro-status
ProStatus(t) ==
  /\ now' = t
  /\ UNCHANGED <<running, clientVars>>
  /\ req' = [op |-> "pro-status"]
  /\ UNCHANGED <<links, scans, scanSeq, settings, nextId>>
  /\ resp' = [status |-> 200, body |-> [isPro |-> IsPro(settings)]]

\* Every statement succeeds.
Next ==
  \/ \E u \in TargetUrls, t \in Later(now) : CreateLink(u, t, 0) /\ UNCHANGED net
  \/ \E i \in Ids, t \in Later(now) : DeleteLink(i, t, 0) /\ UNCHANGED net
  \/ \E i \in Ids, h \in UserAgents, t \in Later(now) : ResolveLink(i, h, t, 0) /\ UNCHANGED net
  \/ \E i \in Ids, t \in Later(now) : GetDetail(i, t) /\ UNCHANGED net
  \/ \E t \in Later(now) : ListLinks(t) /\ UNCHANGED net
  \/ \E b \in BOOLEAN, e \in EventTypes, t \in Later(now) : Webhook(b, e, t, 0) /\ UNCHANGED net
  \/ \E t \in Later(now) : ProStatus(t) /\ UNCHANGED net

Spec == Init /\ [][Next]_vars

\* Any write statement may throw.
NextStorageError ==
  \/ \E u \in TargetUrls, t \in Later(now), f \in 0..1 : CreateLink(u, t, f) /\ UNCHANGED net
  \/ \E i \in Ids, t \in Later(now), f \in 0..2 : DeleteLink(i, t, f) /\ UNCHANGED net
  \/ \E i \in Ids, h \in UserAgents, t \in Later(now), f \in 0..1 : ResolveLink(i, h, t, f) /\ UNCHANGED net
  \/ \E i \in Ids, t \in Later(now) : GetDetail(i, t) /\ UNCHANGED net
  \/ \E t \in Later(now) : ListLinks(t) /\ UNCHANGED net
  \/ \E b \in BOOLEAN, e \in EventTypes, t \in Later(now), f \in 0..1 : Webhook(b, e, t, f) /\ UNCHANGED net
  \/ \E t \in Later(now) : ProStatus(t) /\ UNCHANGED net

SpecStorageError == Init /\ [][NextStorageError]_vars

\* ---- process restart ----

\* CREATE TABLE IF NOT EXISTS: the rows T of a table that exists are kept
CreateTableIfNotExists(T, exists) == IF exists THEN T ELSE {}

\* mutant: INSERT OR REPLACE INTO settings
InsertOrReplace(st, k, v) == [x \in DOMAIN st \cup {k} |-> IF x = k THEN v ELSE st[x]]

\* INSERT OR IGNORE INTO settings (key, value) VALUES (k, v)
InsertOrIgnore(st, k, v) ==
  IF k \in DOMAIN st THEN st
  ELSE [x \in DOMAIN st \cup {k} |-> IF x = k THEN v ELSE st[x]]

\* The process stops and starts again on the existing analytics.db: the module
\* body runs new Database(...) and db.exec(...) once more.  The handler that was
\* between two statements is gone; sqlite_sequence keeps the scan counter.
Restart(t) ==
  /\ now' = t
  /\ req' = [op |-> "restart"]
  /\ resp' = [status |-> 0, body |-> [none |-> TRUE]]
  /\ running' = NoHandler
  /\ links' = CreateTableIfNotExists(links, TRUE)
  /\ scans' = CreateTableIfNotExists(scans, TRUE)
  /\ settings' = InsertOrIgnore(settings, "is_pro", "false")
  /\ UNCHANGED <<scanSeq, nextId, clientVars>>

\* the handlers, with failing statements, and restarts of the process
NextRestart ==
  \/ NextStorageError
  \/ \E t \in Later(now) : Restart(t) /\ UNCHANGED net

SpecRestart == Init /\ [][NextRestart]_vars

\* ---- GET /s/:id statement by statement ----

\* mutant: the handler yields to the event loop between its statements
HandlerRunningNever == FALSE

\* A handler is between two of its statements.  The handlers are synchronous
\* (no await between the SELECT and the INSERT of GET /s/:id), so Node starts
\* no other handler in such a state.
HandlerRunning == running # NoHandler

\* const link = db.prepare('SELECT target_url FROM links WHERE id = ?').get(id)
ResolveCheck(id, header, t) ==
  /\ ~HandlerRunning
  /\ now' = t
  /\ req' = [op |-> "resolve", id |-> id]
  /\ UNCHANGED <<links, scans, scanSeq, settings, nextId, clientVars>>
  /\ IF SelectLink(links, id) # {}
       THEN /\ scanSeq < MaxScans
            /\ running' = [id |-> id, userAgent |-> UserAgentOf(header),
                           link |-> CHOOSE l \in SelectLink(links, id) : TRUE]
            /\ resp' = [status |-> 0, body |-> [none |-> TRUE]]
       ELSE /\ running' = NoHandler
            /\ resp' = [status |-> 404, body |-> [error |-> "Link not found"]]

\* db.prepare('INSERT INTO scans (link_id, user_agent) VALUES (?, ?)').run(...)
\* and res.redirect(link.target_url)
ResolveInsert(t) ==
  /\ running # NoHandler
  /\ now' = t
  /\ running' = NoHandler
  /\ UNCHANGED <<links, settings, nextId, req, clientVars>>
  /\ \E fk \in ForeignKeys :
       IF FkViolation(links, running.id, fk)
         THEN /\ resp' = StorageError
              /\ UNCHANGED <<scans, scanSeq>>
         ELSE /\ scans' = InsertScan(scans, scanSeq, running.id, running.userAgent, t)
              /\ scanSeq' = scanSeq + 1
              /\ resp' = [status |-> 302, body |-> [location |-> running.link.target_url]]

\* createLink, deleteLink and the two statements of resolveLink, in the orders
\* the event loop allows
NextSteps ==
  \/ \E u \in TargetUrls, t \in Later(now) : ~HandlerRunning /\ CreateLink(u, t, 0) /\ UNCHANGED net
  \/ \E i \in Ids, t \in Later(now) : ~HandlerRunning /\ DeleteLink(i, t, 0) /\ UNCHANGED net
  \/ \E i \in Ids, h \in UserAgents, t \in Later(now) : ResolveCheck(i, h, t) /\ UNCHANGED net
  \/ \E t \in Later(now) : ResolveInsert(t) /\ UNCHANGED net

SpecSteps == Init /\ [][NextSteps]_vars

\* ---- generateArtisticQR: the canvas (App.tsx) ----

\* modules.size of the matrix QRCode.create returns: 17 + 4 * version
ModuleCounts == {17 + 4 * v : v \in 1..MaxVersion}

\* the matrices the rendering is run on: every module dark, every module
\* light, alternating modules
ModuleData == {"dark", "light", "checker"}

\* modules.get(row, col)
ModulesGet(q, r, c) ==
  CASE q.data = "dark" -> TRUE
    [] q.data = "light" -> FALSE
    [] OTHER -> (r + c) % 2 = 0

\* A pixel is a grey level v in 0..255 with an opacity a in percent.
Black == [v |-> 0, a |-> 100]
White == [v |-> 255, a |-> 100]
Grey == [v |-> 128, a |-> 100]
Transparent == [v |-> 0, a |-> 0]

\* the stylized images the canvas is painted from
BgImages == {"black", "white", "grey", "checker", "transparent"}

\* Lengths are in hundredths of scale = size / moduleCount.  The canvas is
\* observed at two points of every module cell: its centre, which a dot
\* covers, and a point a quarter into the cell, which no dot reaches.
Unit == 100
SamplePoints == {"centre", "quarter"}
Samples(mc) == (0..(mc - 1)) \X (0..(mc - 1)) \X SamplePoints
SampleX(sp) == Unit * sp[2] + (IF sp[3] = "centre" THEN 50 ELSE 25)
SampleY(sp) == Unit * sp[1] + (IF sp[3] = "centre" THEN 50 ELSE 25)

\* the pixel of bgImg that drawImage(bgImg, 0, 0, size, size) maps to a point
BgPixel(img, sp) ==
  CASE img = "black" -> Black
    [] img = "white" -> White
    [] img = "grey" -> Grey
    [] img = "transparent" -> Transparent
    [] OTHER -> IF (sp[1] + sp[2]) % 2 = 0 THEN White ELSE Black

\* source-over compositing of a source pixel onto a destination pixel
SourceOver(src, dst) ==
  LET rest == (dst.a * (100 - src.a)) \div 100
      a == src.a + rest
  IN  IF a = 0 THEN Transparent
      ELSE [v |-> (src.v * src.a + dst.v * rest + (a \div 2)) \div a, a |-> a]

\* ctx.drawImage(bgImg, 0, 0, size, size)
DrawImage(cv, img) == [sp \in DOMAIN cv |-> SourceOver(BgPixel(img, sp), cv[sp])]

\* ctx.fillStyle = colour; ctx.fillRect(x * scale, y * scale, w * scale, h * scale)
FillRect(cv, x, y, w, h, colour) ==
  [sp \in DOMAIN cv |->
     IF /\ Unit * x <= SampleX(sp) /\ SampleX(sp) < Unit * (x + w)
        /\ Unit * y <= SampleY(sp) /\ SampleY(sp) < Unit * (y + h)
       THEN SourceOver(colour, cv[sp])
       ELSE cv[sp]]

\* radius = scale * 0.18
DotRadius == 18

\* 'rgba(0,0,0,0.9)' and 'rgba(255,255,255,0.9)'
DotColour(isDark) == IF isDark THEN [v |-> 0, a |-> 90] ELSE [v |-> 255, a |-> 90]

\* point sp lies in the circle of radius 0.18 * scale around the centre of cell (r, c)
InDot(sp, r, c) ==
  LET cx == Unit * c + 50
      cy == Unit * r + 50
  IN  (SampleX(sp) - cx) * (SampleX(sp) - cx) + (SampleY(sp) - cy) * (SampleY(sp) - cy)
        <= DotRadius * DotRadius

\* what the dot of cell (r, c) makes of the pixel px at point sp
DotPixel(px, sp, r, c, colour) ==
  IF InDot(sp, r, c) THEN SourceOver(colour, px) ELSE px

\* ctx.arc(centerX, centerY, radius, 0, Math.PI * 2); ctx.fill()
FillDot(cv, r, c, colour) == [sp \in DOMAIN cv |-> DotPixel(cv[sp], sp, r, c, colour)]

\* mutant: the bottom-left region is not excluded
IsFinderTopOnly(mc, r, c) ==
  \/ (r < 7 /\ c < 7)
  \/ (r < 7 /\ c >= mc - 7)

\* const isFinder = (row < 7 && col < 7) || (row < 7 && col >= moduleCount - 7)
\*                  || (row >= moduleCount - 7 && col < 7)
IsFinder(mc, r, c) ==
  \/ (r < 7 /\ c < 7)
  \/ (r < 7 /\ c >= mc - 7)
  \/ (r >= mc - 7 /\ c < 7)

\* mutant: the white square is painted after the core
DrawFinderCoreFirst(cv, x, y) ==
  FillRect(FillRect(FillRect(cv, x, y, 7, 7, Black),
                    x + 2, y + 2, 3, 3, Black),
           x + 1, y + 1, 5, 5, White)

\* const drawFinder = (x, y) => { black 7x7; white 5x5; black 3x3 }
DrawFinder(cv, x, y) ==
  FillRect(FillRect(FillRect(cv, x, y, 7, 7, Black),
                    x + 1, y + 1, 5, 5, White),
           x + 2, y + 2, 3, 3, Black)

\* The state at App.tsx line 209: the tracking link is stored, the matrix is
\* created, the background image is loaded, the canvas is new.
InitRender ==
  /\ links = {[id |-> 1, target_url |-> "https://a.test", created_at |-> <<0, 0>>]}
  /\ scans = {}
  /\ scanSeq = 0
  /\ settings = [is_pro |-> "false"]
  /\ nextId = 2
  /\ now = <<0, 0>>
  /\ req = [op |-> "create", targetUrl |-> "https://a.test"]
  /\ resp = [status |-> 200, body |-> [id |-> 1, shortUrl |-> ShortUrl(1)]]
  /\ running = NoHandler
  /\ pc = "drawImage"
  /\ qr \in [size : ModuleCounts, data : ModuleData]
  /\ bgImg \in BgImages
  /\ canvas = [sp \in Samples(qr.size) |-> Transparent]
  /\ row = 0
  /\ col = 0
  /\ resultImage = NoResult
  /\ sourceImage = 1
  /\ isProcessing = TRUE
  /\ error = NoError
  /\ selectedLink = NoResult
  /\ linksData = NoResult
  /\ isLoadingAnalytics = FALSE
  /\ uploads = 1
  /\ reading = {}
  /\ gen = [source |-> 1, text |-> "https://a.test", shortUrl |-> ShortUrl(1)]
  /\ ev = [name |-> "imageSettles", ok |-> TRUE]
  /\ net = {}

serverVars == <<links, scans, scanSeq, settings, nextId, now, req, resp, running>>

reactVars == <<sourceImage, isProcessing, error, selectedLink, linksData,
               isLoadingAnalytics, uploads, reading, gen, ev>>

\* canvas.width = size; canvas.height = size; ctx.drawImage(bgImg, 0, 0, size, size)
DrawBackground ==
  /\ pc = "drawImage"
  /\ canvas' = DrawImage(canvas, bgImg)
  /\ pc' = "dots"
  /\ row' = 0
  /\ col' = 0
  /\ UNCHANGED <<serverVars, reactVars, qr, bgImg, resultImage>>

\* one iteration of the inner loop over col, with the loop headers around it
DrawDot ==
  /\ pc = "dots"
  /\ canvas' = IF IsFinder(qr.size, row, col)
                 THEN canvas
                 ELSE FillDot(canvas, row, col, DotColour(ModulesGet(qr, row, col)))
  /\ IF col + 1 < qr.size
       THEN /\ col' = col + 1
            /\ UNCHANGED <<row, pc>>
       ELSE /\ col' = 0
            /\ row' = row + 1
            /\ pc' = IF row + 1 < qr.size THEN "dots" ELSE "drawFinderTL"
  /\ UNCHANGED <<serverVars, reactVars, qr, bgImg, resultImage>>

\* drawFinder(0, 0); drawFinder(moduleCount - 7, 0); drawFinder(0, moduleCount - 7)
DrawFinders ==
  /\ pc \in {"drawFinderTL", "drawFinderTR", "drawFinderBL"}
  /\ canvas' = CASE pc = "drawFinderTL" -> DrawFinder(canvas, 0, 0)
                 [] pc = "drawFinderTR" -> DrawFinder(canvas, qr.size - 7, 0)
                 [] OTHER -> DrawFinder(canvas, 0, qr.size - 7)
  /\ pc' = CASE pc = "drawFinderTL" -> "drawFinderTR"
             [] pc = "drawFinderTR" -> "drawFinderBL"
             [] OTHER -> "toDataURL"
  /\ UNCHANGED <<serverVars, reactVars, qr, bgImg, row, col, resultImage>>

\* setResultImage(canvas.toDataURL('image/png'))
SetResultImage ==
  /\ pc = "toDataURL"
  /\ resultImage' = [png |-> canvas]
  /\ pc' = "done"
  /\ UNCHANGED <<serverVars, reactVars, qr, bgImg, canvas, row, col>>

NextRender ==
  \/ DrawBackground /\ UNCHANGED net
  \/ DrawDot /\ UNCHANGED net
  \/ DrawFinders /\ UNCHANGED net
  \/ SetResultImage /\ UNCHANGED net

SpecRender == InitRender /\ [][NextRender]_vars

\* ---- generateArtisticQR: the whole invocation (App.tsx) ----

\* the value of the text input when Generate is clicked
Texts == {"", "https://a.test"}

\* the matrices QRCode.create returns and the images Gemini returns in the
\* runs of the whole invocation
FlowQrs == {[size |-> 21, data |-> "checker"]}
FlowBgs == {"grey", "checker"}

\* the messages of the errors the invocation can catch
FetchFailed == "Failed to fetch"
JsonFailed == "Unexpected token < in JSON"
StylizeRejected == "Gemini request failed"
StylizeNoImage == "AI failed to stylize the image. Please try again."
GenericFailure == "Failed to generate artistic QR code."

\* the iterations of the loop of lines 216-234 that draw over point sp, cells
\* numbered row by row
DotsOver(sp, q) ==
  {k \in 0..(q.size * q.size - 1) :
     /\ ~IsFinder(q.size, k \div q.size, k % q.size)
     /\ InDot(sp, k \div q.size, k % q.size)}

\* the iterations ks of the loop in their order, followed at the one point sp
\* whose pixel is px
RECURSIVE DotLoop(_, _, _, _)
DotLoop(px, sp, q, ks) ==
  IF ks = {} THEN px
  ELSE LET k == CHOOSE x \in ks : \A y \in ks : x <= y
       IN  DotLoop(DotPixel(px, sp, k \div q.size, k % q.size,
                            DotColour(ModulesGet(q, k \div q.size, k % q.size))),
                   sp, q, ks \ {k})

\* lines 209-247 in one piece: background, dots, the three finders
RenderCanvas(q, bg) ==
  LET blank == [sp \in Samples(q.size) |-> Transparent]
      painted == DrawImage(blank, bg)
      dotted == [sp \in Samples(q.size) |-> DotLoop(painted[sp], sp, q, DotsOver(sp, q))]
  IN  DrawFinder(DrawFinder(DrawFinder(dotted, 0, 0), q.size - 7, 0), 0, q.size - 7)

\* the canvases of the runs of the whole invocation
RenderedImages ==
  {[qr |-> q, bgImg |-> bg, canvas |-> RenderCanvas(q, bg)] : q \in FlowQrs, bg \in FlowBgs}

\* canvas.toDataURL('image/png') after lines 209-247 for matrix q and image bg
Rendered(q, bg) == (CHOOSE x \in RenderedImages : x.qr = q /\ x.bgImg = bg).canvas

\* mutant: the finally block is missing
FinallyMissing(p) == p

\* finally { setIsProcessing(false) }
Finally(p) == FALSE

\* mutant: a failed load is treated as a loaded image
ImageLoadedAlways(ok) == TRUE

\* await new Promise((resolve, reject) => { bgImg.onload = resolve; bgImg.onerror = reject })
ImageLoaded(ok) == ok

\* catch (err) { setError(err.message || 'Failed to ...') } finally { ... }
Catch(msg) ==
  /\ error' = msg
  /\ isProcessing' = Finally(isProcessing)
  /\ pc' = "idle"

\* A click on Generate Artwork (enabled unless isProcessing): lines 148-159 up
\* to the await of fetch('/api/links').
Generate(text) ==
  /\ pc = "idle" /\ ~isProcessing
  /\ IF sourceImage = NULL \/ text = ""
       THEN /\ ev' = [name |-> "generate", started |-> FALSE]
            /\ UNCHANGED <<pc, isProcessing, error, gen, net>>
       ELSE /\ nextId <= MaxLinks
            /\ ev' = [name |-> "generate", started |-> TRUE]
            /\ isProcessing' = TRUE
            /\ error' = NoError
            /\ gen' = [source |-> sourceImage, text |-> text, shortUrl |-> <<>>]
            /\ net' = net \cup {[to |-> "server", op |-> "create", targetUrl |-> text]}
            /\ pc' = "fetch"
  /\ UNCHANGED <<serverVars, qr, bgImg, canvas, row, col, resultImage, sourceImage,
                 selectedLink, linksData, isLoadingAnalytics, uploads, reading>>

\* the server handles the POST /api/links that is in flight
ServeCreate(t, fail) ==
  \E m \in net :
    /\ m.to = "server" /\ m.op = "create"
    /\ CreateLink(m.targetUrl, t, fail)
    /\ net' = (net \ {m}) \cup {[to |-> "client", op |-> "create",
                                 status |-> resp'.status, body |-> resp'.body]}

\* await fetch(...) and await linkRes.json() settle.  delivered = FALSE: the
\* request or the response is lost and fetch rejects.
FetchSettles(delivered) ==
  /\ pc = "fetch"
  /\ \E m \in net :
       /\ m.op = "create"
       /\ delivered => m.to = "client"
       /\ net' = net \ {m}
       /\ ev' = [name |-> "fetchSettles", ok |-> delivered /\ m.status = 200]
       /\ IF ~delivered THEN Catch(FetchFailed) /\ UNCHANGED gen
          ELSE IF m.status # 200 THEN Catch(JsonFailed) /\ UNCHANGED gen
          ELSE /\ gen' = [gen EXCEPT !.shortUrl = m.body.shortUrl]
               /\ pc' = "stylize"
               /\ UNCHANGED <<error, isProcessing>>
  /\ UNCHANGED <<serverVars, qr, bgImg, canvas, row, col, resultImage, sourceImage,
                 selectedLink, linksData, isLoadingAnalytics, uploads, reading>>

\* await ai.models.generateContent(...) settles; lines 181-207 up to the await
\* of the image load.  out: "rejected", "noImage" or the image returned;
\* ctx: getContext('2d') returns a context.
StylizeSettles(out, ctx) ==
  /\ pc = "stylize"
  /\ ev' = [name |-> "stylizeSettles", ok |-> out \in FlowBgs /\ ctx]
  /\ IF out = "rejected" THEN Catch(StylizeRejected) /\ UNCHANGED <<qr, bgImg, canvas>>
     ELSE IF out = "noImage" THEN Catch(StylizeNoImage) /\ UNCHANGED <<qr, bgImg, canvas>>
     ELSE /\ \E q \in FlowQrs : qr' = q
          /\ IF ~ctx
               THEN /\ isProcessing' = Finally(isProcessing)
                    /\ pc' = "idle"
                    /\ UNCHANGED <<error, bgImg, canvas>>
               ELSE /\ bgImg' = out
                    /\ canvas' = [sp \in Samples(qr'.size) |-> Transparent]
                    /\ pc' = "load"
                    /\ UNCHANGED <<error, isProcessing>>
  /\ UNCHANGED <<serverVars, row, col, resultImage, sourceImage, selectedLink, linksData,
                 isLoadingAnalytics, uploads, reading, gen, net>>

\* the image load settles; lines 209-255 when it loaded
ImageSettles(ok) ==
  /\ pc = "load"
  /\ ev' = [name |-> "imageSettles", ok |-> ok]
  /\ IF ImageLoaded(ok)
       THEN /\ canvas' = Rendered(qr, bgImg)
            /\ resultImage' = [png |-> canvas']
            /\ isProcessing' = Finally(isProcessing)
            /\ pc' = "idle"
            /\ UNCHANGED error
       ELSE /\ Catch(GenericFailure)
            /\ UNCHANGED <<canvas, resultImage>>
  /\ UNCHANGED <<serverVars, qr, bgImg, row, col, sourceImage, selectedLink, linksData,
                 isLoadingAnalytics, uploads, reading, gen, net>>

\* The upload button, rendered when there is no source image, opens the file
\* dialog; handleFileUpload starts a FileReader on the chosen file.
ChooseFile ==
  /\ sourceImage = NULL
  /\ uploads < MaxUploads
  /\ uploads' = uploads + 1
  /\ reading' = reading \cup {uploads + 1}
  /\ ev' = [name |-> "chooseFile"]
  /\ UNCHANGED <<serverVars, pc, qr, bgImg, canvas, row, col, resultImage, sourceImage,
                 isProcessing, error, selectedLink, linksData, isLoadingAnalytics, gen, net>>

\* reader.onload of handleFileUpload
FileLoaded ==
  \E i \in reading :
    /\ reading' = reading \ {i}
    /\ sourceImage' = i
    /\ resultImage' = NoResult
    /\ error' = NoError
    /\ ev' = [name |-> "fileLoaded"]
    /\ UNCHANGED <<serverVars, pc, qr, bgImg, canvas, row, col, isProcessing, selectedLink,
                   linksData, isLoadingAnalytics, uploads, gen, net>>

\* onClick={() => setSourceImage(null)}
ClearSource ==
  /\ sourceImage # NULL
  /\ sourceImage' = NULL
  /\ ev' = [name |-> "clearSource"]
  /\ UNCHANGED <<serverVars, pc, qr, bgImg, canvas, row, col, resultImage, isProcessing,
                 error, selectedLink, linksData, isLoadingAnalytics, uploads, reading,
                 gen, net>>

NextGenerate ==
  \/ \E x \in Texts : Generate(x)
  \/ \E t \in Later(now), f \in 0..1 : ServeCreate(t, f)
  \/ \E d \in BOOLEAN : FetchSettles(d)
  \/ \E out \in {"rejected", "noImage"} \cup FlowBgs, ctx \in BOOLEAN : StylizeSettles(out, ctx)
  \/ \E ok \in BOOLEAN : ImageSettles(ok)
  \/ ChooseFile
  \/ FileLoaded
  \/ ClearSource

SpecGenerate == Init /\ [][NextGenerate]_vars

\* every awaited call of generateArtisticQR settles
SpecGenerateFair ==
  /\ SpecGenerate
  /\ WF_vars(\E d \in BOOLEAN : FetchSettles(d))
  /\ WF_vars(\E out \in {"rejected", "noImage"} \cup FlowBgs, ctx \in BOOLEAN :
                StylizeSettles(out, ctx))
  /\ WF_vars(\E ok \in BOOLEAN : ImageSettles(ok))

\* ---- the dashboard (App.tsx) ----

\* the state of the generator view, which the dashboard leaves alone
generatorVars == <<pc, qr, bgImg, canvas, row, col, resultImage, sourceImage,
                   isProcessing, error, uploads, reading, gen>>

\* Two links, the first scanned once, and the dashboard not yet loaded.
InitDashboard ==
  /\ links = {[id |-> 1, target_url |-> "https://a.test", created_at |-> <<0, 0>>],
              [id |-> 2, target_url |-> "https://b.test", created_at |-> <<0, 0>>]}
  /\ scans = {[id |-> 1, link_id |-> 1, scanned_at |-> <<0, 0>>, user_agent |-> "UA"]}
  /\ scanSeq = 1
  /\ settings = [is_pro |-> "false"]
  /\ nextId = 3
  /\ now = <<0, 0>>
  /\ req = [op |-> "resolve", id |-> 1]
  /\ resp = [status |-> 302, body |-> [location |-> "https://a.test"]]
  /\ running = NoHandler
  /\ pc = "idle"
  /\ qr = NoQr
  /\ bgImg = NoImage
  /\ canvas = NoCanvas
  /\ row = 0
  /\ col = 0
  /\ resultImage = NoResult
  /\ sourceImage = NULL
  /\ isProcessing = FALSE
  /\ error = NoError
  /\ selectedLink = NoResult
  /\ linksData = NoResult
  /\ isLoadingAnalytics = FALSE
  /\ uploads = 0
  /\ reading = {}
  /\ gen = NoGen
  /\ ev = [name |-> "none"]
  /\ net = {}

\* The dashboard renders: selectedLink.link.created_at and the other reads of
\* selectedLink.link throw when selectedLink is an object without a link
\* field, and React then unmounts the application.
Renders == selectedLink = NoResult \/ "link" \in DOMAIN selectedLink

\* the ids of the links the dashboard shows
ShownIds ==
  IF linksData = NoResult \/ ~Renders THEN {}
  ELSE {linksData.links[k].id : k \in DOMAIN linksData.links}

\* fetchLinks up to its await, called by the effect of the dashboard view
FetchLinks ==
  /\ Renders
  /\ Cardinality(net) < MaxInFlight
  /\ net' = net \cup {[to |-> "server", op |-> "list"]}
  /\ ev' = [name |-> "fetchLinks"]
  /\ UNCHANGED <<serverVars, generatorVars, selectedLink, linksData, isLoadingAnalytics>>

\* fetchLinks after its awaits: setLinksData(data)
ListSettles ==
  \E m \in net :
    /\ m.to = "client" /\ m.op = "list"
    /\ net' = net \ {m}
    /\ linksData' = m.body
    /\ ev' = [name |-> "listSettles"]
    /\ UNCHANGED <<serverVars, generatorVars, selectedLink, isLoadingAnalytics>>

\* a click on a link of the list: fetchDetailedAnalytics(id) up to its await
ClickLink(id) ==
  /\ id \in ShownIds
  /\ Cardinality(net) < MaxInFlight
  /\ isLoadingAnalytics' = TRUE
  /\ net' = net \cup {[to |-> "server", op |-> "analytics", id |-> id]}
  /\ ev' = [name |-> "clickLink", id |-> id]
  /\ UNCHANGED <<serverVars, generatorVars, selectedLink, linksData>>

\* fetchDetailedAnalytics after its awaits: setSelectedLink(data) with the body
\* of the response, whatever its status, and the finally block
DetailSettles ==
  \E m \in net :
    /\ m.to = "client" /\ m.op = "analytics"
    /\ net' = net \ {m}
    /\ selectedLink' = m.body
    /\ isLoadingAnalytics' = FALSE
    /\ ev' = [name |-> "detailSettles", id |-> m.id]
    /\ UNCHANGED <<serverVars, generatorVars, linksData>>

\* a click on the delete button of a link: deleteLink(id) up to its await; the
\* function is the one of the current render and keeps its selectedLink
ClickDelete(id, confirmed) ==
  /\ id \in ShownIds
  /\ ev' = [name |-> "clickDelete", id |-> id]
  /\ IF confirmed
       THEN /\ Cardinality(net) < MaxInFlight
            /\ net' = net \cup {[to |-> "server", op |-> "delete", id |-> id,
                                 selectedLink |-> selectedLink]}
       ELSE UNCHANGED net
  /\ UNCHANGED <<serverVars, generatorVars, selectedLink, linksData, isLoadingAnalytics>>

\* deleteLink after its await: if (res.ok) { if (selectedLink?.link.id === id)
\* setSelectedLink(null); fetchLinks() }.  The selectedLink it reads is the
\* one of the render in which the button was clicked, which is null or has a
\* link field.
DeleteSettles ==
  \E m \in net :
    /\ m.to = "client" /\ m.op = "delete"
    /\ ev' = [name |-> "deleteSettles", id |-> m.id]
    /\ IF m.status # 200
         THEN /\ net' = net \ {m}
              /\ UNCHANGED selectedLink
         ELSE IF m.selectedLink = NoResult
           THEN /\ net' = (net \ {m}) \cup {[to |-> "server", op |-> "list"]}
                /\ UNCHANGED selectedLink
         ELSE /\ net' = (net \ {m}) \cup {[to |-> "server", op |-> "list"]}
              /\ selectedLink' = IF m.selectedLink.link.id = m.id
                                   THEN NoResult ELSE selectedLink
    /\ UNCHANGED <<serverVars, generatorVars, linksData, isLoadingAnalytics>>

\* the server handles the GET /api/links that is in flight
ServeList(t) ==
  \E m \in net :
    /\ m.to = "server" /\ m.op = "list"
    /\ ListLinks(t)
    /\ net' = (net \ {m}) \cup {[to |-> "client", op |-> "list",
                                 status |-> resp'.status, body |-> resp'.body]}

\* the server handles a GET /api/analytics/:id that is in flight
ServeDetail(t) ==
  \E m \in net :
    /\ m.to = "server" /\ m.op = "analytics"
    /\ GetDetail(m.id, t)
    /\ net' = (net \ {m}) \cup {[to |-> "client", op |-> "analytics", id |-> m.id,
                                 status |-> resp'.status, body |-> resp'.body]}

\* the server handles a DELETE /api/links/:id that is in flight
ServeDelete(t) ==
  \E m \in net :
    /\ m.to = "server" /\ m.op = "delete"
    /\ DeleteLink(m.id, t, 0)
    /\ net' = (net \ {m}) \cup {[to |-> "client", op |-> "delete", id |-> m.id,
                                 selectedLink |-> m.selectedLink,
                                 status |-> resp'.status, body |-> resp'.body]}

NextDashboard ==
  \/ FetchLinks
  \/ ListSettles
  \/ \E i \in Ids : ClickLink(i)
  \/ DetailSettles
  \/ \E i \in Ids, c \in BOOLEAN : ClickDelete(i, c)
  \/ DeleteSettles
  \/ \E t \in Later(now) : ServeList(t)
  \/ \E t \in Later(now) : ServeDetail(t)
  \/ \E t \in Later(now) : ServeDelete(t)

SpecDashboard == InitDashboard /\ [][NextDashboard]_vars

\* ---- properties ----
ScansOf(S, id) == {s \in S : s.link_id = id}

\* ids that were generated and are no longer in the links table
Gone == (1..(nextId - 1)) \ LinkIds(links)

\* C1: for a non-empty targetUrl, a createLink that is followed by resolveLink on
\* the id it returned redirects to exactly that targetUrl, and exactly one
\* ScanEvent then exists for the id.
C1_CreateThenResolve ==
  [][(/\ req.op = "create" /\ resp.status = 200
      /\ req'.op = "resolve" /\ req'.id = resp.body.id)
       => /\ ~Falsy(req.targetUrl)
          /\ resp'.status = 302
          /\ resp'.body.location = req.targetUrl
          /\ Cardinality(ScansOf(scans', resp.body.id)) = 1]_vars

C1_Witness ==
  /\ req.op = "resolve" /\ resp.status = 302
  /\ req.id = nextId - 1
  /\ Cardinality(ScansOf(scans, req.id)) = 1
  /\ \E l \in links : l.id # req.id /\ l.target_url # resp.body.location

\* C2: every resolution of an existing id adds exactly one ScanEvent for that id,
\* and no step other than a resolution or a delete of the id changes the id's
\* events; so N resolutions of an id, interleaved in any way with the other
\* requests and with no delete of the id, leave exactly N events for it.
C2_NoLostScan ==
  [][\A i \in LinkIds(links) :
       (~(req'.op = "delete" /\ req'.id = i))
         => /\ Cardinality(ScansOf(scans', i)) = Cardinality(ScansOf(scans, i))
                 + (IF req'.op = "resolve" /\ req'.id = i THEN 1 ELSE 0)
            /\ ScansOf(scans, i) \subseteq ScansOf(scans', i)]_vars

C2_Witness ==
  /\ req.op = "resolve" /\ resp.status = 302
  /\ Cardinality(ScansOf(scans, req.id)) = 2
  /\ \E s1, s2 \in ScansOf(scans, req.id) : s1.id # s2.id /\ s1.scanned_at = s2.scanned_at
  /\ Cardinality(links) > 1

\* C3: in every reachable state every ScanEvent's link_id is the id of a link
\* that exists (no orphaned scan event), also when statements fail.
C3_NoOrphanScan == \A s \in scans : s.link_id \in LinkIds(links)

C3_Witness ==
  /\ req.op = "delete" /\ resp.status = 200
  /\ scans # {}
  /\ Cardinality(scans) < scanSeq

\* C4: a deleteLink(id) that succeeds leaves neither the link nor any ScanEvent
\* of id, and getDetail of an id that was deleted answers 404.
C4_DeleteRemovesAll ==
  [][/\ (req'.op = "delete" /\ resp'.status = 200)
          => /\ req'.id \in LinkIds(links)
             /\ req'.id \notin LinkIds(links')
             /\ ScansOf(scans', req'.id) = {}
     /\ (req'.op = "analytics" /\ req'.id \in Gone) => resp'.status = 404]_vars

C4_Witness ==
  /\ req.op = "analytics" /\ resp.status = 404
  /\ req.id \in Gone
  /\ Cardinality(scans) < scanSeq
  /\ links # {}

\* C5: resolveLink on an id without a link (never created, or created and since
\* deleted) answers 404 and leaves the scans table unchanged.
C5_ResolveNotFound ==
  [][(req'.op = "resolve" /\ req'.id \notin LinkIds(links))
       => /\ resp'.status = 404
          /\ scans' = scans
          /\ scanSeq' = scanSeq]_vars

C5_Witness ==
  /\ req.op = "resolve" /\ resp.status = 404
  /\ req.id \in Gone
  /\ scans # {}

\* C6: createLink with an empty or missing targetUrl answers 400 and leaves the
\* links and scans tables unchanged.
C6_CreateInvalidInput ==
  [][(req'.op = "create" /\ req'.targetUrl \in {Missing, ""})
       => /\ resp'.status = 400
          /\ links' = links
          /\ scans' = scans]_vars

C6_Witness ==
  /\ req.op = "create" /\ req.targetUrl = "" /\ resp.status = 400
  /\ links # {}

\* C7: deleteLink(id) is atomic: a delete request either removes the link and
\* all its ScanEvents or changes nothing, also when a statement fails between
\* its steps.
C7_DeleteAtomic ==
  [][req'.op = "delete"
       => \/ (links' = links /\ scans' = scans)
          \/ (req'.id \notin LinkIds(links') /\ ScansOf(scans', req'.id) = {})]_vars

\* C8: deleteLink on an id without a link answers 404 and leaves every link and
\* every ScanEvent unchanged.
C8_DeleteNotFound ==
  [][(req'.op = "delete" /\ req'.id \notin LinkIds(links))
       => /\ resp'.status = 404
          /\ links' = links
          /\ scans' = scans]_vars

C8_Witness ==
  /\ req.op = "delete" /\ resp.status = 404
  /\ links # {}
  /\ scans # {}

\* the links table's created_at of the link id
CreatedAt(id) == (CHOOSE l \in links : l.id = id).created_at

\* C9 as claimed: in a listLinks result a link that was created later (has the
\* later generated id) comes before every link created earlier.
C9_NewestFirst ==
  req.op = "list" =>
    \A i, j \in DOMAIN resp.body.links :
      resp.body.links[i].id < resp.body.links[j].id => j < i

\* C9 amended: in a listLinks result, of two links with different created_at
\* the one with the later created_at comes first (created_at has a resolution
\* of one second; links created in the same second come in either order).
C9_NewestFirstBySecond ==
  req.op = "list" =>
    \A i, j \in DOMAIN resp.body.links :
      TsLess(CreatedAt(resp.body.links[i].id), CreatedAt(resp.body.links[j].id))
        => j < i

C9_Witness ==
  /\ req.op = "list"
  /\ Len(resp.body.links) = 3
  /\ resp.body.links[1].id = 2 /\ resp.body.links[2].id = 3 /\ resp.body.links[3].id = 1
  /\ CreatedAt(1) # CreatedAt(2)

\* C10: the scan_count of every link of a listLinks result is the number of
\* ScanEvents stored for that link.
C10_ScanCountIsTrueCount ==
  req.op = "list" =>
    \A k \in DOMAIN resp.body.links :
      resp.body.links[k].scan_count
        = Cardinality({s \in scans : s.link_id = resp.body.links[k].id})

C10_Witness ==
  /\ req.op = "list"
  /\ \E k \in DOMAIN resp.body.links : resp.body.links[k].scan_count = 1
  /\ \E k \in DOMAIN resp.body.links : resp.body.links[k].scan_count = 0
  /\ Cardinality(scans) < scanSeq

\* C11: getDetail of an existing link answers with the link's row, all its
\* ScanEvents ordered newest first by scanned_at, and the per-date buckets in
\* ascending order of date; getDetail of an id without a link answers 404.
C11_DetailOrdered ==
  req.op = "analytics" =>
    IF req.id \in LinkIds(links)
      THEN /\ resp.status = 200
           /\ resp.body.link \in links /\ resp.body.link.id = req.id
           /\ {resp.body.scans[k] : k \in DOMAIN resp.body.scans} = ScansOf(scans, req.id)
           /\ Len(resp.body.scans) = Cardinality(ScansOf(scans, req.id))
           /\ \A i, j \in DOMAIN resp.body.scans :
                TsLess(resp.body.scans[i].scanned_at, resp.body.scans[j].scanned_at)
                  => j < i
           /\ \A i, j \in DOMAIN resp.body.chartData :
                i < j => resp.body.chartData[i].date < resp.body.chartData[j].date
      ELSE resp.status = 404

C11_Witness ==
  /\ req.op = "analytics" /\ resp.status = 200
  /\ Len(resp.body.scans) = 2
  /\ TsLess(resp.body.scans[2].scanned_at, resp.body.scans[1].scanned_at)
  /\ Len(resp.body.chartData) = 2

\* the dates on which link id has a scan
ScanDates(id) == {DateOf(s.scanned_at) : s \in ScansOf(scans, id)}

\* C12: the per-date buckets of a link are exactly one bucket for each date on
\* which the link has a ScanEvent, counting the link's ScanEvents of that date,
\* and no bucket for a date without scans.
C12_PerDateCounts ==
  (req.op = "analytics" /\ resp.status = 200) =>
    /\ Len(resp.body.chartData) = Cardinality(ScanDates(req.id))
    /\ \A k \in DOMAIN resp.body.chartData :
         /\ resp.body.chartData[k].date \in ScanDates(req.id)
         /\ resp.body.chartData[k].count =
              Cardinality({s \in scans : s.link_id = req.id
                             /\ s.scanned_at[1] = resp.body.chartData[k].date})
    /\ \A d \in ScanDates(req.id) :
         \E k \in DOMAIN resp.body.chartData : resp.body.chartData[k].date = d

C12_Witness ==
  /\ req.op = "analytics" /\ resp.status = 200
  /\ Len(resp.body.chartData) = 1
  /\ resp.body.chartData[1].date = MaxDay
  /\ resp.body.chartData[1].count = 2
  /\ Cardinality(links) > 1

\* C13: when the instance is not pro and holds more than 2 links, listLinks
\* answers the first 2 entries of the newest-first list with hiddenCount =
\* total - 2; when it is pro, or holds at most 2 links, it answers every link
\* with hiddenCount = 0.
C13_FreemiumGate ==
  req.op = "list" =>
    LET shown == {resp.body.links[k].id : k \in DOMAIN resp.body.links}
        total == Cardinality(links)
    IN  /\ Cardinality(shown) = Len(resp.body.links)
        /\ resp.body.totalCount = total
        /\ IF settings.is_pro # "true" /\ total > 2
             THEN /\ Len(resp.body.links) = 2
                  /\ resp.body.hiddenCount = total - 2
                  /\ shown \subseteq LinkIds(links)
                  /\ \A l \in links : l.id \notin shown =>
                       \A r \in links : r.id \in shown =>
                          ~TsLess(r.created_at, l.created_at)
             ELSE /\ shown = LinkIds(links)
                  /\ resp.body.hiddenCount = 0

C13_Witness ==
  /\ req.op = "list"
  /\ settings.is_pro = "false"
  /\ Len(resp.body.links) = 2 /\ resp.body.hiddenCount = 1
  /\ resp.body.links[1].id = 3
  /\ \E l \in links : TsLess(l.created_at, resp.body.links[2].created_at)

\* C14: isPro starts false, and once it is true every step leaves it true; a
\* purchase-completed event that arrives when it is already true is answered
\* without error and leaves it true.
C14_ProOneWay ==
  /\ settings.is_pro = "false"
  /\ [][/\ (settings.is_pro = "true" => settings'.is_pro = "true")
        /\ (/\ settings.is_pro = "true"
            /\ req'.op = "webhook" /\ req'.sigOk
            /\ req'.type = "checkout.session.completed")
             => (resp'.status = 200 /\ settings'.is_pro = "true")]_vars

C14_Witness ==
  /\ settings.is_pro = "true"
  /\ req.op = "webhook" /\ req.sigOk /\ req.type = "checkout.session.completed"
  /\ resp.status = 200
  /\ now = <<MaxDay, MaxSec>>
  /\ links # {}

\* C15: the stored is_pro changes only in a webhook step whose event passed the
\* signature verification and has type checkout.session.completed, and then
\* from false to true; every other step leaves the settings unchanged.
C15_OnlyVerifiedCheckout ==
  [][settings' # settings
       => /\ req'.op = "webhook" /\ req'.sigOk
          /\ req'.type = "checkout.session.completed"
          /\ settings.is_pro = "false" /\ settings'.is_pro = "true"]_vars

C15_Witness ==
  /\ settings.is_pro = "false"
  /\ req.op = "webhook" /\ req.sigOk /\ req.type = "payment_intent.created"
  /\ resp.status = 200

\* C17: the target_url of a link never changes while the link exists: a create
\* stores the given targetUrl, every step keeps the row of every link it does
\* not delete, and a resolve redirects to the stored target_url.
C17_TargetUrlImmutable ==
  [][/\ \A l \in links : l.id \in LinkIds(links') => l \in links'
     /\ (req'.op = "create" /\ resp'.status = 200)
          => \E l \in links' : /\ l.id = resp'.body.id
                               /\ l.target_url = req'.targetUrl
                               /\ l.id \notin LinkIds(links)
     /\ (req'.op = "resolve" /\ resp'.status = 302)
          => \E l \in links : l.id = req'.id /\ l.target_url = resp'.body.location]_vars

C17_Witness ==
  /\ req.op = "resolve" /\ resp.status = 302 /\ req.id = 1
  /\ \E l \in links : l.id = 3 /\ l.target_url # resp.body.location
  /\ 2 \notin LinkIds(links)

\* C18: a ScanEvent is inserted only by a resolveLink that answers with the
\* redirect, one per resolution and for the resolved id; a stored ScanEvent
\* never changes; a ScanEvent is removed only by the delete of its link.
C18_ScanLifecycle ==
  [][/\ (scans' \ scans # {})
          => /\ req'.op = "resolve" /\ resp'.status = 302
             /\ Cardinality(scans' \ scans) = 1
             /\ \A s \in scans' \ scans : s.link_id = req'.id /\ s.scanned_at = now'
     /\ (req'.op = "resolve" /\ resp'.status = 302) => Cardinality(scans' \ scans) = 1
     /\ \A s \in scans : \A u \in scans' : s.id = u.id => s = u
     /\ (scans \ scans' # {})
          => /\ req'.op = "delete" /\ resp'.status = 200
             /\ req'.id \notin LinkIds(links')
             /\ \A s \in scans \ scans' : s.link_id = req'.id]_vars

\* C19: whatever the order in which the event loop runs a deleteLink(id) and
\* the two statements of a resolveLink(id), once no handler is running no
\* ScanEvent refers to a deleted id.
C19_NoOrphanAfterRace ==
  running = NoHandler => \A i \in Gone : ScansOf(scans, i) = {}

C19_Witness ==
  /\ running = NoHandler
  /\ req.op = "delete" /\ resp.status = 200
  /\ scanSeq = MaxScans
  /\ scans = {}
  /\ Cardinality(Gone) = 1

\* the corners (x, y) of the three finder regions of a matrix of mc modules
FinderCorners(mc) == {<<0, 0>>, <<mc - 7, 0>>, <<0, mc - 7>>}

\* the colour of module (dx, dy) of a finder pattern
FinderColour(dx, dy) ==
  IF dx \in {0, 6} \/ dy \in {0, 6} THEN Black
  ELSE IF dx \in {1, 5} \/ dy \in {1, 5} THEN White
  ELSE Black

\* C20: in the final canvas, for every background and every module matrix,
\* each of the three 7x7 corner regions shows a black outer ring, a white
\* inner ring and a black 3x3 core, at every observed point of every module.
C20_FinderPattern ==
  pc \in {"toDataURL", "done"} =>
    \A f \in FinderCorners(qr.size) : \A dx, dy \in 0..6 : \A o \in SamplePoints :
      canvas[<<f[2] + dy, f[1] + dx, o>>] = FinderColour(dx, dy)

C20_Witness ==
  /\ pc = "done"
  /\ bgImg = "checker" /\ qr.data = "checker" /\ qr.size = 21
  /\ resultImage.png[<<17, 3, "centre">>] = Black
  /\ resultImage.png[<<19, 3, "centre">>] = White
  /\ resultImage.png[<<8, 8, "centre">>] # resultImage.png[<<8, 8, "quarter">>]

\* C25: the isPro field of every list-links response equals the stored is_pro
\* setting, the value the pro-status query returns in that state.
C25_ListIsProStored ==
  req.op = "list" => resp.body.isPro = IsPro(settings)

\* C29: a resolveLink(id) or deleteLink(id) step changes only id: the rows of
\* the other links and the ScanEvents of the other links are the same before
\* and after, and a resolveLink step leaves the links table as it was.
C29_OnlyIdAffected ==
  [][req'.op \in {"resolve", "delete"}
       => /\ {l \in links' : l.id # req'.id} = {l \in links : l.id # req'.id}
          /\ {s \in scans' : s.link_id # req'.id} = {s \in scans : s.link_id # req'.id}
          /\ (req'.op = "resolve" => links' = links)]_vars

C29_Witness ==
  /\ req.op = "delete" /\ resp.status = 200
  /\ scanSeq = MaxScans
  /\ Cardinality(links) = 2
  /\ \E l \in links : Cardinality(ScansOf(scans, l.id)) = 1

\* C30: a restart of the process, which runs the database initialisation on
\* the existing store, leaves the links, the ScanEvents and the is_pro setting
\* as they were; an is_pro that is true is not reset to false.
C30_RestartKeepsStore ==
  [][req'.op = "restart"
       => links' = links /\ scans' = scans /\ settings' = settings]_vars

C30_Witness ==
  /\ req.op = "restart"
  /\ settings.is_pro = "true"
  /\ links # {} /\ scans # {}
  /\ \E l \in links : ScansOf(scans, l.id) = {}

\* cell (r, c) lies in one of the three 7x7 finder regions
InFinderRegion(mc, r, c) ==
  \E f \in FinderCorners(mc) : (c - f[1]) \in 0..6 /\ (r - f[2]) \in 0..6

\* the loop over row and col has passed cell (r, c)
DotPassed(r, c) == pc # "dots" \/ r < row \/ (r = row /\ c < col)

\* C21: in the dot pass every cell outside the three finder regions receives
\* one dot at its centre, black (90% opaque) when the module is dark and white
\* (90% opaque) when it is light, and nothing away from the centre; no cell
\* inside a finder region receives a dot.
C21_DotPass ==
  pc \in {"dots", "drawFinderTL", "drawFinderTR", "drawFinderBL", "toDataURL", "done"} =>
    \A r, c \in 0..(qr.size - 1) :
      LET centre == <<r, c, "centre">>
          quarter == <<r, c, "quarter">>
          dot == [v |-> IF ModulesGet(qr, r, c) THEN 0 ELSE 255, a |-> 90]
      IN  IF InFinderRegion(qr.size, r, c)
            THEN pc \in {"dots", "drawFinderTL"}
                   => /\ canvas[centre] = BgPixel(bgImg, centre)
                      /\ canvas[quarter] = BgPixel(bgImg, quarter)
            ELSE /\ canvas[centre] = IF DotPassed(r, c)
                                       THEN SourceOver(dot, BgPixel(bgImg, centre))
                                       ELSE BgPixel(bgImg, centre)
                 /\ canvas[quarter] = BgPixel(bgImg, quarter)

C21_Witness ==
  /\ pc = "drawFinderTL"
  /\ qr.data = "checker" /\ bgImg = "grey" /\ qr.size = 21
  /\ canvas[<<7, 7, "centre">>] = [v |-> 13, a |-> 100]
  /\ canvas[<<7, 8, "centre">>] = [v |-> 242, a |-> 100]
  /\ canvas[<<7, 7, "quarter">>] = Grey
  /\ canvas[<<20, 0, "centre">>] = Grey

\* C22: when the background image fails to load, the invocation ends with the
\* error state set and resultImage as it was before; after a failed first
\* generation resultImage is still null.
C22_LoadFailureNoOutput ==
  [][(pc = "load" /\ ev'.name = "imageSettles" /\ ~ev'.ok)
       => /\ error' # NoError
          /\ resultImage' = resultImage
          /\ (nextId = 2 => resultImage' = NoResult)
          /\ pc' = "idle"]_vars

C22_Witness ==
  /\ ev = [name |-> "imageSettles", ok |-> FALSE]
  /\ error = GenericFailure
  /\ resultImage = NoResult
  /\ nextId = 2 /\ Cardinality(links) = 1

\* C23: when generateArtisticQR has failed after it received the short URL of
\* its tracking link, the registry does not contain that link.
C23_NoLinkAfterFailure ==
  (pc = "idle" /\ error # NoError /\ gen.shortUrl # <<>>)
    => gen.shortUrl[3] \notin LinkIds(links)

\* C27: a generation publishes its result only for the source image that is
\* loaded at that moment: when an image is loaded and resultImage is assigned,
\* the invocation that assigns it was started with that image.
C27_NoStalePublish ==
  [][(ev'.name = "imageSettles" /\ ev'.ok /\ pc = "load" /\ sourceImage # NULL)
       => gen.source = sourceImage]_vars

\* C28: isProcessing is true as long as an invocation of generateArtisticQR is
\* running, and whenever it is true it becomes false again, if every awaited
\* call settles: on success, on a thrown failure and on the return without a
\* 2D context.
C28_ProcessingEnds ==
  /\ [](pc \in {"fetch", "stylize", "load"} => isProcessing)
  /\ (isProcessing ~> ~isProcessing)

C28_Witness ==
  /\ ev = [name |-> "stylizeSettles", ok |-> FALSE]
  /\ error = NoError
  /\ ~isProcessing /\ pc = "idle"
  /\ gen.shortUrl = ShortUrl(1)
  /\ resultImage = NoResult

\* C26: when no detail fetch and no delete is in flight, selectedLink is null
\* or a detail, with a link field, of a link that exists.
C26_SelectedLinkLive ==
  (\A m \in net : m.op \notin {"analytics", "delete"})
    => \/ selectedLink = NoResult
       \/ /\ "link" \in DOMAIN selectedLink
          /\ selectedLink.link.id \in LinkIds(links)

====
